---- MODULE Spec2Model ----
(***************************************************************************)
(* Model of backend/server.py: the scrape-and-enrich pipeline.             *)
(*                                                                         *)
(* The Job Store (db.scraping_results) is a map from job id to document.   *)
(* Each submitted job has one background task (perform_scraping) whose     *)
(* position is pc[j]; every `await` of the task is one step.  The store    *)
(* can be reachable or not (storeUp): an insert or update issued while it  *)
(* is unreachable raises and changes nothing.                              *)
(*                                                                         *)
(* Text values keep the literals of the source, transliterated to ASCII.   *)
(* Clock values (created_date, processed_date) are left out: no step of    *)
(* the pipeline reads them.                                                *)
(***************************************************************************)
EXTENDS Integers, Sequences, FiniteSets, TLC

(* Number of jobs the client submits in one run of the model. *)
MaxJobs == 1

JobSlots == 1..MaxJobs

(* How many jobs run at the same time where the claim is about jobs       *)
(* running concurrently.                                                  *)
MaxConcurrent == 2

ConcurrentSlots == 1..MaxConcurrent

(* ---------------------------------------------------------------------- *)
(* PropertyListing                                                        *)
(* ---------------------------------------------------------------------- *)

(* The ten attribute fields, in the order of the class. *)
AttrFields ==
    {"owner_name", "contact_number", "room_count", "net_area", "is_in_complex",
     "complex_name", "heating_type", "parking_type", "credit_suitable", "price"}

(* json null, as a value an attribute can be assigned. *)
NoneValue == "<None>"

(* Python truthiness of an attribute value: `if listing.owner_name`. *)
Truthy(v) == v # "" /\ v # NoneValue

(* listing_date and raw_html are texts built by formatting: a text of this *)
(* kind is the sequence of its tokens, and the empty text has none.       *)
EmptyText == <<>>

(* No exception caught: the value of a task's `e` outside the handler. *)
NoException == ""

(* Mutant of PropertyListing: the price of the data dict is not passed. *)
PropertyListingNoPrice(id, data, listing_date, raw_html) ==
    [id |-> id,
     owner_name |-> data.owner_name,
     contact_number |-> data.contact_number,
     room_count |-> data.room_count,
     net_area |-> data.net_area,
     is_in_complex |-> data.is_in_complex,
     complex_name |-> data.complex_name,
     heating_type |-> data.heating_type,
     parking_type |-> data.parking_type,
     credit_suitable |-> data.credit_suitable,
     price |-> "",
     listing_date |-> listing_date,
     raw_html |-> raw_html]

(* PropertyListing built from a data dict: fields not given take the class defaults. *)
PropertyListing(id, data, listing_date, raw_html) ==
    [id |-> id,
     owner_name |-> data.owner_name,
     contact_number |-> data.contact_number,
     room_count |-> data.room_count,
     net_area |-> data.net_area,
     is_in_complex |-> data.is_in_complex,
     complex_name |-> data.complex_name,
     heating_type |-> data.heating_type,
     parking_type |-> data.parking_type,
     credit_suitable |-> data.credit_suitable,
     price |-> data.price,
     listing_date |-> listing_date,
     raw_html |-> raw_html]

(* ---------------------------------------------------------------------- *)
(* create_demo_listings / create_demo_listings_from_content               *)
(* ---------------------------------------------------------------------- *)

DemoData ==
    << [owner_name |-> "Ahmet Yilmaz", contact_number |-> "0532 123 45 67",
        room_count |-> "3+1", net_area |-> "120 m2", is_in_complex |-> "Evet",
        complex_name |-> "Prestij Sitesi", heating_type |-> "Kombi",
        parking_type |-> "Kapali", credit_suitable |-> "Evet",
        price |-> "850.000 TL"],
       [owner_name |-> "Fatma Demir", contact_number |-> "0543 987 65 43",
        room_count |-> "2+1", net_area |-> "95 m2", is_in_complex |-> "Hayir",
        complex_name |-> "", heating_type |-> "Merkezi Isitma",
        parking_type |-> "Acik", credit_suitable |-> "Evet",
        price |-> "650.000 TL"],
       [owner_name |-> "Mehmet Kaya", contact_number |-> "0555 321 98 76",
        room_count |-> "4+1", net_area |-> "150 m2", is_in_complex |-> "Evet",
        complex_name |-> "Luxury Residence", heating_type |-> "Klima",
        parking_type |-> "Kapali", credit_suitable |-> "Hayir",
        price |-> "1.200.000 TL"] >>

(* create_demo_listings(): three listings, no listing_date; the ids are    *)
(* fresh uuids, here firstId, firstId + 1, ...                             *)
CreateDemoListings(firstId) ==
    [k \in 1..Len(DemoData) |->
        PropertyListing(firstId + k - 1, DemoData[k], EmptyText,
                        <<"Demo listing for", DemoData[k].owner_name>>)]

MonthNames ==
    [m \in 1..12 |->
        CASE m = 1 -> "Ocak" [] m = 2 -> "Subat" [] m = 3 -> "Mart"
          [] m = 4 -> "Nisan" [] m = 5 -> "Mayis" [] m = 6 -> "Haziran"
          [] m = 7 -> "Temmuz" [] m = 8 -> "Agustos" [] m = 9 -> "Eylul"
          [] m = 10 -> "Ekim" [] m = 11 -> "Kasim" [] m = 12 -> "Aralik"]

ContentDemoData ==
    << [owner_name |-> "Ali Ozkan", contact_number |-> "0535 444 22 11",
        room_count |-> "3+1", net_area |-> "110 m2", is_in_complex |-> "Evet",
        complex_name |-> "Modern Yasam Sitesi", heating_type |-> "Kombi",
        parking_type |-> "Kapali", credit_suitable |-> "Evet",
        price |-> "750.000 TL", day |-> "15"],
       [owner_name |-> "Zeynep Aksoy", contact_number |-> "0542 777 88 99",
        room_count |-> "2+1", net_area |-> "85 m2", is_in_complex |-> "Hayir",
        complex_name |-> "", heating_type |-> "Dogalgaz",
        parking_type |-> "Yok", credit_suitable |-> "Evet",
        price |-> "520.000 TL", day |-> "22"],
       [owner_name |-> "Hasan Celik", contact_number |-> "0533 999 11 22",
        room_count |-> "4+2", net_area |-> "180 m2", is_in_complex |-> "Evet",
        complex_name |-> "VIP Residence", heating_type |-> "Merkezi Isitma",
        parking_type |-> "Kapali", credit_suitable |-> "Hayir",
        price |-> "1.500.000 TL", day |-> "8"],
       [owner_name |-> "Ayse Erdogan", contact_number |-> "0544 123 45 67",
        room_count |-> "1+1", net_area |-> "60 m2", is_in_complex |-> "Hayir",
        complex_name |-> "", heating_type |-> "Klima",
        parking_type |-> "Acik", credit_suitable |-> "Evet",
        price |-> "380.000 TL", day |-> "28"] >>

(* f"{day} {month_names[target_month]} 2025": the text as its three tokens. *)
ListingDate(day, target_month) == <<day, MonthNames[target_month], "2025">>

(* str(e) of the KeyError that month_names[target_month] raises. *)
KeyErrorOf(target_month) == ToString(target_month)

(* create_demo_listings_from_content(content, target_month): four listings *)
(* dated in the target month; month_names[target_month] raises KeyError    *)
(* for a month outside 1..12.  The content is parsed and never read.       *)
CreateDemoListingsFromContent(firstId, target_month) ==
    IF target_month \notin DOMAIN MonthNames
    THEN [raised |-> TRUE, exc |-> KeyErrorOf(target_month), listings |-> <<>>]
    ELSE [raised |-> FALSE, exc |-> NoException,
          listings |->
            [k \in 1..Len(ContentDemoData) |->
                PropertyListing(
                    firstId + k - 1, ContentDemoData[k],
                    ListingDate(ContentDemoData[k].day, target_month),
                    <<"Ilan tarihi:",
                      ListingDate(ContentDemoData[k].day, target_month),
                      "Ilan sahibi:", ContentDemoData[k].owner_name>>)]]

(* ---------------------------------------------------------------------- *)
(* scrape_sahibinden_listings                                             *)
(* ---------------------------------------------------------------------- *)

(* What the browser does during one acquisition: playwright itself fails  *)
(* to start, the launch fails, new_page or set_extra_http_headers fails,  *)
(* goto / wait / content fails or times out, the page loads, or the page  *)
(* loads and browser.close() fails.                                       *)
AcquisitionOutcomes ==
    {"playwright_fail", "launch_fail", "page_fail", "nav_fail", "loaded",
     "close_fail"}

(* Mutant of LaunchFailed: the launch failure leaves the function. *)
LaunchFailedRaises(firstId) ==
    [raised |-> TRUE, exc |-> "browser launch failed", listings |-> <<>>,
     browser |-> "not_launched"]

(* The handler of a failed launch: `return create_demo_listings()`. *)
LaunchFailed(firstId) ==
    [raised |-> FALSE, exc |-> NoException,
     listings |-> CreateDemoListings(firstId), browser |-> "not_launched"]
(* Mutant of BrowserAfter: browser.close() in a `finally`. *)
BrowserClosedInFinally(outcome, built_raised) ==
    IF outcome \in {"playwright_fail", "launch_fail"} THEN "not_launched"
    ELSE "closed"

(* What became of the browser handle when the function is left: never     *)
(* launched; closed, browser.close() was awaited and returned, which is   *)
(* the case only after the navigation block ended with the candidates     *)
(* built; or stopped, browser.close() was skipped or failed and the       *)
(* browser went down with playwright when the `async with` block was      *)
(* left.                                                                  *)
BrowserAfter(outcome, built_raised) ==
    CASE outcome \in {"playwright_fail", "launch_fail"} -> "not_launched"
      [] outcome \in {"nav_fail", "loaded"} /\ ~built_raised -> "closed"
      [] OTHER -> "stopped"

(* scrape_sahibinden_listings(url, target_month, target_year).  url is    *)
(* only handed to goto and target_year is never read.  A KeyError raised  *)
(* while the candidates are built is raised again by the same call in     *)
(* each handler, and leaves the function.                                 *)
ScrapeSahibindenListings(firstId, target_month, outcome) ==
    LET built == CreateDemoListingsFromContent(firstId, target_month)
    IN  IF outcome = "launch_fail"
        THEN LaunchFailed(firstId)
        ELSE [raised |-> built.raised, exc |-> built.exc,
              listings |-> built.listings,
              browser |-> BrowserAfter(outcome, built.raised)]

(* ---------------------------------------------------------------------- *)
(* process_listing_with_ai                                                *)
(* ---------------------------------------------------------------------- *)

(* Mutant of DictGet: `d.get(key) or default`, an empty value gives the  *)
(* default too.                                                           *)
DictGetOrDefault(d, key, default) ==
    IF key \in DOMAIN d /\ d[key] # "" THEN d[key] ELSE default

(* ai_data.get(key, default) *)
DictGet(d, key, default) == IF key \in DOMAIN d THEN d[key] ELSE default

(* The default of each ai_data.get(...) call. *)
AiPlaceholder(f) ==
    CASE f \in {"owner_name", "contact_number"} -> "Tespit Edilemedi"
      [] f = "complex_name" -> ""
      [] OTHER -> "Belirtilmemis"

(* The ten assignments from the parsed object. *)
AiUpdated(listing, ai_data) ==
    [f \in DOMAIN listing |->
        IF f \in AttrFields THEN DictGet(ai_data, f, AiPlaceholder(f))
        ELSE listing[f]]

(* Mutant of FallbackPlaceholder: one string for every field. *)
FallbackPlaceholderUniform(f) == "Belirtilmemis"

(* The value each `if not listing.<field>` of the fallback assigns. *)
FallbackPlaceholder(f) ==
    CASE f = "owner_name" -> "HTML Parse Gerekli"
      [] f = "contact_number" -> "Detay Sayfasinda"
      [] OTHER -> "Belirtilmemis"
(* Mutant of FallbackFields: the fallback has no default for price. *)
FallbackFieldsNoPrice == AttrFields \ {"complex_name", "price"}

(* The fields the fallback has an `if not listing.<field>` for. *)
FallbackFields == AttrFields \ {"complex_name"}

(* "Set default values if still empty". *)
FallbackFilled(listing) ==
    [f \in DOMAIN listing |->
        IF f \in FallbackFields /\ ~Truthy(listing[f])
        THEN FallbackPlaceholder(f) ELSE listing[f]]

(* "Set error values". *)
ErrorMarked(listing) ==
    [listing EXCEPT !.owner_name = "Islem Hatasi", !.price = "Alinamadi"]

(* What one call did: whether it raised, the record it returned, the      *)
(* branch it left through and whether it went to the AI service.          *)
CallResult(raised, listing, branch, ai_called) ==
    [raised |-> raised, listing |-> listing, branch |-> branch,
     ai_called |-> ai_called]
(* Mutant of OuterExcept: the exception is raised again. *)
OuterExceptReraises(listing, ai_called) ==
    CallResult(TRUE, listing, "fatal", ai_called)

(* The outer `except Exception`: mark the record and return it. *)
OuterExcept(listing, ai_called) ==
    CallResult(FALSE, ErrorMarked(listing), "fatal", ai_called)

(* "Fallback: Simple HTML parsing".  soup_raises: BeautifulSoup or        *)
(* get_text raises on the candidate's raw_html.                           *)
HeuristicFallback(listing, soup_raises, ai_called) ==
    IF Truthy(listing.owner_name) /\ Truthy(listing.price)
    THEN CallResult(FALSE, listing, "fallback", ai_called)
    ELSE IF soup_raises
         THEN OuterExcept(listing, ai_called)
         ELSE CallResult(FALSE, FallbackFilled(listing), "fallback", ai_called)

(* Mutant of ShortCircuit: no candidate is returned early. *)
ShortCircuitNever(listing) == FALSE

(* "Skip if already processed": owner_name and price are both set. *)
ShortCircuit(listing) == Truthy(listing.owner_name) /\ Truthy(listing.price)
(* Mutant of AiAsked: the AI step does not look at the credential. *)
AiAskedWithoutKey(listing, api_key) == ~ShortCircuit(listing)

(* The AI service is asked only by a call that reaches it: a candidate    *)
(* that is not short-circuited, with a credential configured.             *)
AiAsked(listing, api_key) == api_key /\ ~ShortCircuit(listing)

(* The outcomes of the AI step: something in it raises (the chat cannot   *)
(* be initialised, send_message fails, the response is no text); the      *)
(* response is not JSON; it is JSON but no object, so that ai_data.get    *)
(* raises AttributeError; or it parses to an object.                      *)
AiKinds == {"raises", "not_json", "not_object", "object"}

(* process_listing_with_ai(listing), with GEMINI_API_KEY = api_key and    *)
(* the behaviour ai of the AI service.                                    *)
ProcessListingWithAI(listing, api_key, ai, soup_raises) ==
    IF ShortCircuit(listing)
    THEN CallResult(FALSE, listing, "short_circuit", FALSE)
    ELSE IF AiAsked(listing, api_key) /\ ai.kind = "object"
         THEN CallResult(FALSE, AiUpdated(listing, ai.data), "ai", TRUE)
         ELSE HeuristicFallback(listing, soup_raises,
                                AiAsked(listing, api_key))

(* ---------------------------------------------------------------------- *)
(* State                                                                  *)
(* ---------------------------------------------------------------------- *)

VARIABLES
    db,                 \* db.scraping_results: job id -> document
    storeUp,            \* whether the store can be reached
    apiKey,             \* whether GEMINI_API_KEY is set
    uuidCount,          \* how many uuid4() values have been handed out
    result_id,          \* per task: the id of its job (0: not submitted)
    request,            \* per task: the ScrapingRequest
    pc,                 \* per task: position in perform_scraping
    listings,           \* per task: the local `listings`
    processed,          \* per task: the local `processed_listings`
    exc,                \* per task: str(e) of the exception in the handler
    lastCall,           \* per task: its last call of process_listing_with_ai
    resp,               \* the HTTP response a route has just returned
    acq                 \* the acquisition that has just ended

vars == <<db, storeUp, apiKey, uuidCount, result_id, request, pc, listings,
          processed, exc, lastCall, resp, acq>>

(* The requests the client submits: a month of the year with a year      *)
(* other than the default, and a month outside 1..12 with the default     *)
(* year (ScrapingRequest checks no range).                                *)
Requests ==
    {[url |-> "https://example.com/listings", month |-> 7, year |-> 2024],
     [url |-> "https://example.com/other", month |-> 13, year |-> 2025]}

NoRequest == [url |-> "", month |-> 0, year |-> 0]

(* A job id no submit has returned. *)
UnknownId == 0

(* str(e) of the exception an insert or update raises while the store is  *)
(* unreachable.                                                           *)
StoreError == "ServerSelectionTimeoutError"

(* The values an attribute of the parsed object can have. *)
AiValues == {"AI metni", "", NoneValue}

(* The parsed objects tried: every key present, no key present, or every  *)
(* key but one, all present keys with one value.                          *)
AiObjects ==
    {[f \in keys |-> v] :
        keys \in {AttrFields, {}} \cup {AttrFields \ {f} : f \in AttrFields},
        v \in AiValues}

NoData == [f \in {} |-> ""]

AiResponses ==
    {[kind |-> k, data |-> NoData] : k \in AiKinds \ {"object"}}
        \cup {[kind |-> "object", data |-> d] : d \in AiObjects}

(* No call made yet; also the response of a call that never asked. *)
NoResponse == [kind |-> "none", data |-> NoData]

NoCall == [made |-> FALSE]

(* No acquisition has just ended. *)
NoAcq == [made |-> FALSE]

NoResp == [op |-> "none", code |-> 0]

(* Mutant of ScrapingResult: the job is created in status scraping. *)
ScrapingResultStartsScraping(id, req) ==
    [id |-> id, url |-> req.url, month |-> req.month, year |-> req.year,
     total_listings |-> 0, processed_listings |-> 0, status |-> "scraping",
     listings |-> <<>>]

(* ScrapingResult(url=..., total_listings=0, processed_listings=0,        *)
(* status="processing") as start_scraping builds it, and .dict() of it.   *)
ScrapingResult(id, req) ==
    [id |-> id, url |-> req.url, month |-> req.month, year |-> req.year,
     total_listings |-> 0, processed_listings |-> 0, status |-> "processing",
     listings |-> <<>>]

ResultFields ==
    {"id", "url", "month", "year", "total_listings", "processed_listings",
     "status", "listings"}

(* ScrapingResult built from a document: the model's fields are taken    *)
(* from it, anything else in the document is ignored.                     *)
ToScrapingResult(doc) == [f \in ResultFields |-> doc[f]]

(* find_one({"id": id}) *)
Found(coll, id) == id \in DOMAIN coll

(* Mutant of InsertOne: the document is not stored. *)
InsertOneLost(coll, doc) == coll

(* insert_one(doc) *)
InsertOne(coll, doc) ==
    [i \in DOMAIN coll \cup {doc.id} |-> IF i = doc.id THEN doc ELSE coll[i]]

(* update_one({"id": id}, {"$set": fields}): the fields named are set,    *)
(* the others kept; no document with that id, nothing changes.            *)
UpdateOne(coll, id, fields) ==
    IF id \notin DOMAIN coll THEN coll
    ELSE [coll EXCEPT ![id] =
            [f \in DOMAIN coll[id] \cup DOMAIN fields |->
                IF f \in DOMAIN fields THEN fields[f] ELSE coll[id][f]]]

Init ==
    /\ db = [i \in {} |-> NoRequest]
    /\ storeUp = TRUE
    /\ apiKey \in BOOLEAN
    /\ uuidCount = 0
    /\ result_id = [j \in JobSlots |-> 0]
    /\ request = [j \in JobSlots |-> NoRequest]
    /\ pc = [j \in JobSlots |-> "idle"]
    /\ listings = [j \in JobSlots |-> <<>>]
    /\ processed = [j \in JobSlots |-> <<>>]
    /\ exc = [j \in JobSlots |-> NoException]
    /\ lastCall = [j \in JobSlots |-> NoCall]
    /\ resp = NoResp
    /\ acq = NoAcq

(* ---------------------------------------------------------------------- *)
(* The environment                                                        *)
(* ---------------------------------------------------------------------- *)

StoreDown ==
    /\ storeUp
    /\ storeUp' = FALSE
    /\ resp' = NoResp
    /\ acq' = NoAcq
    /\ UNCHANGED <<db, apiKey, uuidCount, result_id, request, pc, listings,
                   processed, exc, lastCall>>

StoreBack ==
    /\ ~storeUp
    /\ storeUp' = TRUE
    /\ resp' = NoResp
    /\ acq' = NoAcq
    /\ UNCHANGED <<db, apiKey, uuidCount, result_id, request, pc, listings,
                   processed, exc, lastCall>>

(* ---------------------------------------------------------------------- *)
(* Routes                                                                 *)
(* ---------------------------------------------------------------------- *)

(* POST /scrape.  The insert raises while the store is unreachable: the   *)
(* client gets a 500 and no task is added.  Otherwise the document is     *)
(* inserted, the task is added and the new ScrapingResult is returned.    *)
StartScraping(j, req) ==
    /\ pc[j] = "idle"
    /\ \A k \in JobSlots : k < j => pc[k] # "idle"
    /\ IF storeUp
       THEN LET result == ScrapingResult(uuidCount + 1, req)
            IN  /\ db' = InsertOne(db, result)
                /\ uuidCount' = uuidCount + 1
                /\ result_id' = [result_id EXCEPT ![j] = result.id]
                /\ request' = [request EXCEPT ![j] = req]
                /\ pc' = [pc EXCEPT ![j] = "set_scraping"]
                /\ resp' = [op |-> "scrape", code |-> 200, body |-> result]
       ELSE /\ resp' = [op |-> "scrape", code |-> 500]
            /\ UNCHANGED <<db, uuidCount, result_id, request, pc>>
    /\ acq' = NoAcq
    /\ UNCHANGED <<storeUp, apiKey, listings, processed, exc, lastCall>>

(* Mutant of NotFound: an id the store does not have is answered with an *)
(* empty success.                                                         *)
NotFoundAnswersEmpty(op, id) == [op |-> op, id |-> id, code |-> 200]

(* `if not result: raise HTTPException(status_code=404, ...)` *)
NotFound(op, id) == [op |-> op, id |-> id, code |-> 404]

(* find_one raised: the store is unreachable. *)
StoreUnreachable(op, id) == [op |-> op, id |-> id, code |-> 500]

(* GET /results/{result_id} *)
GetScrapingResult(id) ==
    /\ resp' = IF ~storeUp THEN StoreUnreachable("results", id)
               ELSE IF ~Found(db, id) THEN NotFound("results", id)
               ELSE [op |-> "results", id |-> id, code |-> 200,
                     body |-> ToScrapingResult(db[id])]
    /\ acq' = NoAcq
    /\ UNCHANGED <<db, storeUp, apiKey, uuidCount, result_id, request, pc,
                   listings, processed, exc, lastCall>>

(* The ten column names of both exports, and the listing field each       *)
(* column is read from.                                                   *)
ExportHeaders ==
    <<"Ilan Sahibi", "Telefon", "Oda Sayisi", "Net m2", "Site Ici",
      "Site Adi", "Isitma", "Otopark", "Krediye Uygun", "Fiyat">>

ExportFields ==
    <<"owner_name", "contact_number", "room_count", "net_area",
      "is_in_complex", "complex_name", "heating_type", "parking_type",
      "credit_suitable", "price">>

(* listing.get(field, '') *)
ListingGet(listing, f) == IF f \in DOMAIN listing THEN listing[f] ELSE ""

(* text[:n] for the texts a listing can hold: the ones longer than the    *)
(* cut lose their tail, every other one is short enough to pass whole.    *)
Slice(text, n) ==
    CASE n = 10 /\ text = "Prestij Sitesi" -> "Prestij Si"
      [] n = 10 /\ text = "Luxury Residence" -> "Luxury Res"
      [] n = 10 /\ text = "Modern Yasam Sitesi" -> "Modern Yas"
      [] n = 10 /\ text = "VIP Residence" -> "VIP Reside"
      [] n = 10 /\ text = "Merkezi Isitma" -> "Merkezi Is"
      [] n = 10 /\ text = "Belirtilmemis" -> "Belirtilme"
      [] n = 15 /\ text = "HTML Parse Gerekli" -> "HTML Parse Gere"
      [] n = 15 /\ text = "Detay Sayfasinda" -> "Detay Sayfasind"
      [] n = 15 /\ text = "Tespit Edilemedi" -> "Tespit Edilemed"
      [] OTHER -> text

(* The cut export_pdf applies to each column; 0: none. *)
PdfCut == <<15, 15, 0, 0, 0, 10, 10, 0, 0, 15>>

(* pd.DataFrame(data).to_excel(filepath, index=False): one row per        *)
(* listing under the header of the frame's columns.  The columns are the  *)
(* keys of the row dicts, so a frame built from no rows has no columns    *)
(* and the sheet no header.                                               *)
ExcelSheet(stored) ==
    [header |-> IF Len(stored) = 0 THEN <<>> ELSE ExportHeaders,
     rows |-> [k \in 1..Len(stored) |->
                  [c \in 1..Len(ExportFields) |->
                      ListingGet(stored[k], ExportFields[c])]]]

(* table_data of export_pdf: the headers, then one row per listing with   *)
(* five of the columns cut.                                               *)
PdfTable(stored) ==
    [header |-> ExportHeaders,
     rows |-> [k \in 1..Len(stored) |->
                  [c \in 1..Len(ExportFields) |->
                      IF PdfCut[c] = 0
                      THEN ListingGet(stored[k], ExportFields[c])
                      ELSE Slice(ListingGet(stored[k], ExportFields[c]),
                                 PdfCut[c])]]]

(* A slice of None raises TypeError. *)
PdfRaises(stored) ==
    \E k \in 1..Len(stored), c \in 1..Len(ExportFields) :
        PdfCut[c] # 0 /\ ListingGet(stored[k], ExportFields[c]) = NoneValue

(* result.get('listings', []) *)
StoredListings(doc) == IF "listings" \in DOMAIN doc THEN doc.listings ELSE <<>>

(* GET /export/excel/{result_id} *)
ExportExcel(id) ==
    /\ resp' = IF ~storeUp THEN StoreUnreachable("excel", id)
               ELSE IF ~Found(db, id) THEN NotFound("excel", id)
               ELSE [op |-> "excel", id |-> id, code |-> 200,
                     body |-> ExcelSheet(StoredListings(db[id]))]
    /\ acq' = NoAcq
    /\ UNCHANGED <<db, storeUp, apiKey, uuidCount, result_id, request, pc,
                   listings, processed, exc, lastCall>>

(* GET /export/pdf/{result_id} *)
ExportPdf(id) ==
    /\ resp' = IF ~storeUp THEN StoreUnreachable("pdf", id)
               ELSE IF ~Found(db, id) THEN NotFound("pdf", id)
               ELSE IF PdfRaises(StoredListings(db[id]))
               THEN [op |-> "pdf", id |-> id, code |-> 500]
               ELSE [op |-> "pdf", id |-> id, code |-> 200,
                     body |-> PdfTable(StoredListings(db[id]))]
    /\ acq' = NoAcq
    /\ UNCHANGED <<db, storeUp, apiKey, uuidCount, result_id, request, pc,
                   listings, processed, exc, lastCall>>

(* ---------------------------------------------------------------------- *)
(* perform_scraping: one action per await                                 *)
(* ---------------------------------------------------------------------- *)

(* Mutant of ScrapingFields: the first update leaves the status. *)
ScrapingFieldsKeepsProcessing == [status |-> "processing"]

(* The field maps of the five update_one calls. *)
ScrapingFields == [status |-> "scraping"]
(* Mutant of TotalFields: the total is one short. *)
TotalFieldsCountsShort(found) ==
    [total_listings |-> Len(found) - 1, status |-> "processing_ai"]


TotalFields(found) ==
    [total_listings |-> Len(found), status |-> "processing_ai"]
(* Mutant of ProgressFields: progress is saved for every other candidate. *)
ProgressFieldsEveryOther(done) ==
    IF Len(done) % 2 = 0 THEN [processed_listings |-> Len(done)]
    ELSE [f \in {} |-> 0]

(* Mutant of ProgressFields: the records are saved as they are produced. *)
ProgressFieldsWithListings(done) ==
    [processed_listings |-> Len(done), listings |-> done]


ProgressFields(done) == [processed_listings |-> Len(done)]
(* Mutant of FinalFields: the listings are written last first. *)
FinalFieldsReversed(done) ==
    [listings |-> [i \in 1..Len(done) |-> done[Len(done) + 1 - i]],
     status |-> "completed"]
(* Mutant of FinalFields: the final update puts the status back. *)
FinalFieldsResets(done) == [listings |-> done, status |-> "processing"]


FinalFields(done) == [listings |-> done, status |-> "completed"]
(* Mutant of ErrorFields: the message is not saved. *)
ErrorFieldsNoMessage(e) == [status |-> "error"]


ErrorFields(e) == [status |-> "error", error_message |-> e]
(* Mutant of LoopHead: the loop leaves one candidate out. *)
LoopHeadStopsEarly(found, done) ==
    IF Len(done) + 1 < Len(found) THEN "extract" ELSE "final"

(* `for listing in listings`: the next candidate, or the final update. *)
LoopHead(found, done) == IF Len(done) < Len(found) THEN "extract" ELSE "final"

(* An update_one inside the try block: applied, and the task goes on to   *)
(* next; or the store is unreachable, the call raises and the task enters *)
(* the handler with that exception.                                       *)
UpdateInTry(j, fields, next) ==
    IF storeUp
    THEN /\ db' = UpdateOne(db, result_id[j], fields)
         /\ pc' = [pc EXCEPT ![j] = next]
         /\ exc' = exc
    ELSE /\ db' = db
         /\ pc' = [pc EXCEPT ![j] = "handler"]
         /\ exc' = [exc EXCEPT ![j] = StoreError]

SetScraping(j) ==
    /\ pc[j] = "set_scraping"
    /\ UpdateInTry(j, ScrapingFields, "scrape")
    /\ resp' = NoResp
    /\ acq' = NoAcq
    /\ UNCHANGED <<storeUp, apiKey, uuidCount, result_id, request, listings,
                   processed, lastCall>>

Scrape(j, outcome) ==
    /\ pc[j] = "scrape"
    /\ LET r == ScrapeSahibindenListings(uuidCount + 1, request[j].month,
                                         outcome)
       IN  /\ IF r.raised
              THEN /\ exc' = [exc EXCEPT ![j] = r.exc]
                   /\ pc' = [pc EXCEPT ![j] = "handler"]
                   /\ UNCHANGED <<listings, uuidCount>>
              ELSE /\ listings' = [listings EXCEPT ![j] = r.listings]
                   /\ uuidCount' = uuidCount + Len(r.listings)
                   /\ pc' = [pc EXCEPT ![j] = "set_total"]
                   /\ exc' = exc
           /\ acq' = [made |-> TRUE, job |-> j, outcome |-> outcome,
                      raised |-> r.raised, browser |-> r.browser]
    /\ resp' = NoResp
    /\ UNCHANGED <<db, storeUp, apiKey, result_id, request, processed,
                   lastCall>>

SetTotal(j) ==
    /\ pc[j] = "set_total"
    /\ UpdateInTry(j, TotalFields(listings[j]),
                   LoopHead(listings[j], processed[j]))
    /\ resp' = NoResp
    /\ acq' = NoAcq
    /\ UNCHANGED <<storeUp, apiKey, uuidCount, result_id, request, listings,
                   processed, lastCall>>

(* The fallback parses raw_html only when it is reached with owner_name   *)
(* or price still empty.                                                  *)
SoupRead(listing, api_key, ai) ==
    /\ ~ShortCircuit(listing)
    /\ ~(AiAsked(listing, api_key) /\ ai.kind = "object")

(* process_listing_with_ai on the next candidate, and the append.  The    *)
(* record returned is the candidate object itself, changed in place, so   *)
(* `listings` sees the change too.                                        *)
Extract(j, ai, soup_raises) ==
    /\ pc[j] = "extract"
    /\ LET i == Len(processed[j]) + 1
           r == ProcessListingWithAI(listings[j][i], apiKey, ai, soup_raises)
       IN  /\ IF AiAsked(listings[j][i], apiKey)
              THEN ai \in AiResponses ELSE ai = NoResponse
           /\ soup_raises => SoupRead(listings[j][i], apiKey, ai)
           /\ lastCall' = [lastCall EXCEPT ![j] =
                [made |-> TRUE, candidate |-> listings[j][i],
                 branch |-> r.branch, ai_called |-> r.ai_called,
                 response |-> ai, soup_raises |-> soup_raises,
                 raised |-> r.raised]]
           /\ IF r.raised
              THEN /\ exc' = [exc EXCEPT ![j] = "extraction failed"]
                   /\ pc' = [pc EXCEPT ![j] = "handler"]
                   /\ UNCHANGED <<listings, processed>>
              ELSE /\ listings' = [listings EXCEPT ![j][i] = r.listing]
                   /\ processed' = [processed EXCEPT
                                        ![j] = Append(@, r.listing)]
                   /\ pc' = [pc EXCEPT ![j] = "progress"]
                   /\ exc' = exc
    /\ resp' = NoResp
    /\ acq' = NoAcq
    /\ UNCHANGED <<db, storeUp, apiKey, uuidCount, result_id, request>>

Progress(j) ==
    /\ pc[j] = "progress"
    /\ UpdateInTry(j, ProgressFields(processed[j]),
                   LoopHead(listings[j], processed[j]))
    /\ resp' = NoResp
    /\ acq' = NoAcq
    /\ UNCHANGED <<storeUp, apiKey, uuidCount, result_id, request, listings,
                   processed, lastCall>>

(* Mutant of Final: a statement after the last update raises inside the  *)
(* try block.                                                             *)
FinalThenRaises(j) ==
    /\ pc[j] = "final"
    /\ UpdateInTry(j, FinalFields(processed[j]), "handler")
    /\ resp' = NoResp
    /\ acq' = NoAcq
    /\ UNCHANGED <<storeUp, apiKey, uuidCount, result_id, request, listings,
                   processed, lastCall>>

(* The last update: the listings and status completed. *)
Final(j) ==
    /\ pc[j] = "final"
    /\ UpdateInTry(j, FinalFields(processed[j]), "done")
    /\ resp' = NoResp
    /\ acq' = NoAcq
    /\ UNCHANGED <<storeUp, apiKey, uuidCount, result_id, request, listings,
                   processed, lastCall>>

(* `except Exception as e`: the update to status error.  While the store  *)
(* is unreachable this update raises too, nothing catches it, and the     *)
(* task ends with the document as it was.                                 *)
Handler(j) ==
    /\ pc[j] = "handler"
    /\ IF storeUp
       THEN /\ db' = UpdateOne(db, result_id[j], ErrorFields(exc[j]))
            /\ pc' = [pc EXCEPT ![j] = "done"]
       ELSE /\ db' = db
            /\ pc' = [pc EXCEPT ![j] = "crashed"]
    /\ resp' = NoResp
    /\ acq' = NoAcq
    /\ UNCHANGED <<storeUp, apiKey, uuidCount, result_id, request, listings,
                   processed, exc, lastCall>>

(* One step of the background task of job j. *)
Task(j) ==
    \/ SetScraping(j)
    \/ \E outcome \in AcquisitionOutcomes : Scrape(j, outcome)
    \/ SetTotal(j)
    \/ \E ai \in AiResponses \cup {NoResponse}, soup_raises \in BOOLEAN :
            Extract(j, ai, soup_raises)
    \/ Progress(j)
    \/ Final(j)
    \/ Handler(j)

(* The ids the client asks for: those submit returned, and one it never   *)
(* returned.                                                              *)
PollIds == {result_id[j] : j \in JobSlots} \cup {UnknownId}

Next ==
    \/ \E j \in JobSlots, req \in Requests : StartScraping(j, req)
    \/ \E id \in PollIds : GetScrapingResult(id)
    \/ \E j \in JobSlots : SetScraping(j)
    \/ \E j \in JobSlots, outcome \in AcquisitionOutcomes : Scrape(j, outcome)
    \/ \E j \in JobSlots : SetTotal(j)
    \/ \E j \in JobSlots, ai \in AiResponses \cup {NoResponse},
          soup_raises \in BOOLEAN :
            Extract(j, ai, soup_raises)
    \/ \E j \in JobSlots : Progress(j)
    \/ \E j \in JobSlots : Final(j)
    \/ \E j \in JobSlots : Handler(j)
    \/ StoreDown
    \/ StoreBack

Spec == Init /\ [][Next]_vars

(* The same with the two exports, which read the store and change        *)
(* nothing in it.                                                         *)
NextExport ==
    \/ Next
    \/ \E id \in PollIds : ExportExcel(id)
    \/ \E id \in PollIds : ExportPdf(id)

SpecExport == Init /\ [][NextExport]_vars

(* Jobs submitted one after the other whose tasks run side by side, any   *)
(* step of one between any two steps of the other, with the store         *)
(* reachable throughout.                                                  *)
InitPair ==
    /\ db = [i \in {} |-> NoRequest]
    /\ storeUp = TRUE
    /\ apiKey \in BOOLEAN
    /\ uuidCount = 0
    /\ result_id = [j \in ConcurrentSlots |-> 0]
    /\ request = [j \in ConcurrentSlots |-> NoRequest]
    /\ pc = [j \in ConcurrentSlots |-> "idle"]
    /\ listings = [j \in ConcurrentSlots |-> <<>>]
    /\ processed = [j \in ConcurrentSlots |-> <<>>]
    /\ exc = [j \in ConcurrentSlots |-> NoException]
    /\ lastCall = [j \in ConcurrentSlots |-> NoCall]
    /\ resp = NoResp
    /\ acq = NoAcq

NextPair ==
    \/ \E j \in ConcurrentSlots, req \in Requests : StartScraping(j, req)
    \/ \E j \in ConcurrentSlots : Task(j)

SpecPair == InitPair /\ [][NextPair]_vars

(* The background task is run by the event loop until it ends; the store  *)
(* going away and coming back is up to the environment.                   *)
FairSpec == Spec /\ \A j \in JobSlots : WF_vars(Task(j))

(* ---------------------------------------------------------------------- *)
(* The extraction loop on an arbitrary candidate                          *)
(* ---------------------------------------------------------------------- *)

ListingFields == AttrFields \cup {"id", "listing_date", "raw_html"}

(* A candidate whose attribute fields in `filled` carry a value and whose *)
(* other attribute fields are empty.                                      *)
Candidate(id, filled) ==
    [f \in ListingFields |->
        CASE f = "id" -> id
          [] f = "listing_date" -> EmptyText
          [] f = "raw_html" -> <<"<html>", "ilan", "</html>">>
          [] OTHER -> IF f \in filled THEN "dolu" ELSE ""]

(* The candidates tried: at most two attribute fields filled, or at most  *)
(* two empty.                                                             *)
CandidateShapes ==
    {filled \in SUBSET AttrFields :
        \/ Cardinality(filled) <= 2
        \/ Cardinality(AttrFields \ filled) <= 2}

(* Job 1 is past acquisition with one candidate to extract: its document  *)
(* is what start_scraping inserted and the first two updates changed.     *)
InitExtract ==
    \E filled \in CandidateShapes, req \in Requests :
        LET found == <<Candidate(2, filled)>>
            first == CHOOSE j \in JobSlots : \A k \in JobSlots : j <= k
        IN  /\ db = UpdateOne(
                        UpdateOne(InsertOne([i \in {} |-> NoRequest],
                                            ScrapingResult(1, req)),
                                  1, ScrapingFields),
                        1, TotalFields(found))
            /\ storeUp = TRUE
            /\ apiKey \in BOOLEAN
            /\ uuidCount = 2
            /\ result_id = [j \in JobSlots |-> IF j = first THEN 1 ELSE 0]
            /\ request = [j \in JobSlots |->
                            IF j = first THEN req ELSE NoRequest]
            /\ pc = [j \in JobSlots |->
                        IF j = first THEN LoopHead(found, <<>>) ELSE "idle"]
            /\ listings = [j \in JobSlots |->
                            IF j = first THEN found ELSE <<>>]
            /\ processed = [j \in JobSlots |-> <<>>]
            /\ exc = [j \in JobSlots |-> NoException]
            /\ lastCall = [j \in JobSlots |-> NoCall]
            /\ resp = NoResp
            /\ acq = NoAcq

NextExtract ==
    \/ \E j \in JobSlots, ai \in AiResponses \cup {NoResponse},
          soup_raises \in BOOLEAN :
            Extract(j, ai, soup_raises)
    \/ \E j \in JobSlots : Progress(j)
    \/ \E j \in JobSlots : Final(j)
    \/ \E j \in JobSlots : Handler(j)
    \/ StoreDown
    \/ StoreBack

SpecExtract == InitExtract /\ [][NextExtract]_vars

(* ---------------------------------------------------------------------- *)
(* Properties                                                             *)
(* ---------------------------------------------------------------------- *)

(* The tasks that have a job, and the document of a task's job. *)
Submitted == {j \in JobSlots : Found(db, result_id[j])}

Doc(j) == db[result_id[j]]

Terminal == {"completed", "error"}

(* The record the last call of process_listing_with_ai of task j returned. *)
Returned(j) == processed[j][Len(processed[j])]

(* A get-job response that carries a record. *)
Polled == resp.op = "results" /\ resp.code = 200

(* C1: a job whose status is completed has processed_listings equal to    *)
(* total_listings, and both equal to the length of its listings.          *)
C1_CompletedCounts ==
    \A i \in DOMAIN db :
        db[i].status = "completed" =>
            /\ db[i].processed_listings = db[i].total_listings
            /\ db[i].total_listings = Len(db[i].listings)

C1_Witness ==
    \E i \in DOMAIN db :
        db[i].status = "completed" /\ Len(db[i].listings) = 4

(* C2, as claimed: every change of a job's status is one of the edges     *)
(* processing -> scraping, scraping -> processing_ai,                     *)
(* processing_ai -> completed, scraping -> error.                         *)
C2_ClaimedEdges ==
    {<<"processing", "scraping">>, <<"scraping", "processing_ai">>,
     <<"processing_ai", "completed">>, <<"scraping", "error">>}

C2_OnlyClaimedEdges ==
    [][\A i \in DOMAIN db :
          db'[i].status # db[i].status =>
              <<db[i].status, db'[i].status>> \in C2_ClaimedEdges]_vars

(* C2, amended: every change of a job's status is one of the edges        *)
(* processing -> scraping, scraping -> processing_ai,                     *)
(* processing_ai -> completed, or an edge to error from processing,       *)
(* scraping or processing_ai; there is no backward edge and no edge out   *)
(* of completed or error.                                                 *)
C2_StatusEdges ==
    [][\A i \in DOMAIN db :
          db'[i].status # db[i].status =>
              <<db[i].status, db'[i].status>> \in
                  C2_ClaimedEdges \cup {<<"processing", "error">>,
                                        <<"processing_ai", "error">>}]_vars

(* A job that went to error out of processing_ai: it has its total. *)
C2_Witness ==
    \E i \in DOMAIN db : db[i].status = "error" /\ db[i].total_listings > 0

(* C3: a run of perform_scraping in which some step raised ends with the  *)
(* job in status error and error_message set to the failure's             *)
(* description, never with the job in a non-terminal status.              *)
C3_RaisedRunEndsInError ==
    \A j \in Submitted :
        pc[j] \in {"done", "crashed"} /\ exc[j] # NoException =>
            /\ Doc(j).status = "error"
            /\ "error_message" \in DOMAIN Doc(j)
            /\ Doc(j).error_message = exc[j]

(* C4: every submitted job eventually reaches status completed or error,  *)
(* when its background task is scheduled fairly.                          *)
C4_EventuallyTerminal ==
    \A j \in JobSlots :
        (pc[j] # "idle") ~> (j \in Submitted /\ Doc(j).status \in Terminal)

(* C5: in every state of a job record that a get-job poll can observe,    *)
(* processed_listings <= total_listings.                                  *)
C5_ProcessedAtMostTotal ==
    /\ \A i \in DOMAIN db :
          db[i].processed_listings <= db[i].total_listings
    /\ Polled => resp.body.processed_listings <= resp.body.total_listings

(* A poll that saw a job part of the way through its candidates. *)
C5_Witness ==
    /\ Polled
    /\ resp.body.processed_listings > 0
    /\ resp.body.processed_listings < resp.body.total_listings

(* C6: total_listings is written once, by the update that ends            *)
(* acquisition (at most once in a run, and before any progress);          *)
(* processed_listings is saved after every candidate, so each change of   *)
(* it is a step of exactly one, up to the total, and the count saved has  *)
(* caught up with the candidates extracted whenever the next extraction   *)
(* or the final update starts, and has reached the total when the job is  *)
(* completed; neither counter ever decreases.                             *)
C6_CountersStepwise ==
    /\ [](\A j \in Submitted :
            pc[j] \in {"extract", "final"} =>
                Doc(j).processed_listings = Len(processed[j]))
    /\ [](\A i \in DOMAIN db :
            db[i].status = "completed" =>
                /\ db[i].total_listings > 0
                /\ db[i].processed_listings = db[i].total_listings)
    /\ [][\A i \in DOMAIN db :
            /\ db'[i].total_listings # db[i].total_listings =>
                  /\ db[i].status = "scraping"
                  /\ db'[i].status = "processing_ai"
                  /\ db[i].total_listings = 0
                  /\ db[i].processed_listings = 0
            /\ db'[i].processed_listings # db[i].processed_listings =>
                  /\ db'[i].processed_listings = db[i].processed_listings + 1
                  /\ db'[i].processed_listings <= db[i].total_listings
                  /\ db'[i].total_listings = db[i].total_listings]_vars

(* The count 2 of 4 is saved, between 1 and 3. *)
C6_Witness ==
    \E i \in DOMAIN db :
        db[i].processed_listings = 2 /\ db[i].total_listings = 4

(* C7: a job's listings are empty in every status but completed, error    *)
(* included, in the store and in every get-job response; they are         *)
(* written by one update, which replaces the empty sequence by the whole  *)
(* one and sets status completed.                                         *)
C7_ListingsWrittenWhole ==
    /\ [](\A i \in DOMAIN db :
            db[i].status # "completed" => Len(db[i].listings) = 0)
    /\ [](Polled /\ resp.body.status # "completed" =>
            Len(resp.body.listings) = 0)
    /\ [][\A i \in DOMAIN db :
            db'[i].listings # db[i].listings =>
                /\ Len(db[i].listings) = 0
                /\ db[i].status = "processing_ai"
                /\ db'[i].status = "completed"
                /\ Len(db'[i].listings) = db[i].total_listings]_vars

(* A job in error after some of its candidates were processed. *)
C7_Witness ==
    \E i \in DOMAIN db :
        /\ db[i].status = "error"
        /\ db[i].processed_listings > 0
        /\ Len(db[i].listings) = 0

(* C8: a job record carries an error_message if and only if its status    *)
(* is error.                                                              *)
C8_ErrorMessageIffError ==
    \A i \in DOMAIN db :
        ("error_message" \in DOMAIN db[i]) <=> (db[i].status = "error")

C8_Witness ==
    \E i \in DOMAIN db :
        /\ db[i].status = "error"
        /\ "error_message" \in DOMAIN db[i]
        /\ db[i].error_message = StoreError

(* C9, as claimed: every record returned through the heuristic fallback   *)
(* has all ten attribute fields non-empty.                                *)
C9_FallbackFillsAllTen ==
    \A j \in JobSlots :
        lastCall[j].made /\ lastCall[j].branch = "fallback" =>
            \A f \in AttrFields : Returned(j)[f] # ""

(* C9, amended: every record returned through the heuristic fallback (no  *)
(* credential, the AI call raised, or the response did not parse to an    *)
(* object) has the nine attribute fields other than complex_name          *)
(* non-empty; complex_name is left as the candidate had it, empty too.    *)
C9_FallbackFillsAllButComplexName ==
    \A j \in JobSlots :
        lastCall[j].made /\ lastCall[j].branch = "fallback" =>
            /\ \A f \in AttrFields \ {"complex_name"} : Returned(j)[f] # ""
            /\ Returned(j).complex_name = lastCall[j].candidate.complex_name

(* The fallback returned a record whose complex_name is still empty, and  *)
(* filled a price that was empty.                                         *)
C9_Witness ==
    \E j \in JobSlots :
        /\ lastCall[j].made /\ lastCall[j].branch = "fallback"
        /\ lastCall[j].candidate.price = ""
        /\ Returned(j).price = "Belirtilmemis"
        /\ Returned(j).complex_name = ""

(* C10: process_listing_with_ai never raises: whatever the candidate and  *)
(* the outcome of the AI step, it returns a record, the orchestrator      *)
(* appends it, and the progress update that follows counts it.            *)
C10_ExtractNeverRaises ==
    \A j \in JobSlots :
        lastCall[j].made =>
            /\ ~lastCall[j].raised
            /\ Len(processed[j]) >= 1
            /\ Returned(j).id = lastCall[j].candidate.id
            /\ pc[j] \in {"extract", "final", "done"} /\ exc[j] = NoException
                   => Doc(j).processed_listings = Len(processed[j])

(* A candidate that went through the outer handler was counted. *)
C10_Witness ==
    \E j \in Submitted :
        /\ lastCall[j].made /\ lastCall[j].branch = "fatal"
        /\ Doc(j).processed_listings = 1

(* C11: a candidate whose owner_name and price are both non-empty is      *)
(* returned with every field as it was, and the call does not go to the   *)
(* AI service, with a credential configured or without.                   *)
C11_FilledCandidateReturnedAsIs ==
    \A j \in JobSlots :
        /\ lastCall[j].made
        /\ lastCall[j].candidate.owner_name # ""
        /\ lastCall[j].candidate.price # ""
        => /\ Returned(j) = lastCall[j].candidate
           /\ ~lastCall[j].ai_called
           /\ lastCall[j].response = NoResponse
           /\ lastCall[j].branch = "short_circuit"

(* With a credential configured, a candidate that has owner_name and      *)
(* price but no room_count came back with room_count still empty.         *)
C11_Witness ==
    \E j \in JobSlots :
        /\ apiKey /\ lastCall[j].made
        /\ lastCall[j].candidate.owner_name # ""
        /\ lastCall[j].candidate.price # ""
        /\ lastCall[j].candidate.room_count = ""
        /\ Returned(j).room_count = ""

(* C12, as claimed: when the AI response parses to an object, each of the *)
(* ten attribute fields is set from the object, and the fields of the     *)
(* keys it omits all get one and the same string, which is not empty.     *)
C12_OnePlaceholderForAllTen ==
    \A j \in JobSlots :
        lastCall[j].made /\ lastCall[j].branch = "ai" =>
            LET data == lastCall[j].response.data
                omitted == AttrFields \ DOMAIN data
            IN  /\ \A f \in DOMAIN data : Returned(j)[f] = data[f]
                /\ \A f, g \in omitted : Returned(j)[f] = Returned(j)[g]
                /\ \A f \in omitted : Returned(j)[f] # ""

(* C12, amended: when the AI response parses to an object, each of the    *)
(* ten attribute fields is set from the object: to the value of its key   *)
(* when the key is present, an empty or null value included; when the key *)
(* is omitted, owner_name and contact_number to "Tespit Edilemedi",       *)
(* complex_name to the empty string, and the other seven to               *)
(* "Belirtilmemis".                                                       *)
C12_AiPathDefaults ==
    \A j \in JobSlots :
        lastCall[j].made /\ lastCall[j].branch = "ai" =>
            LET data == lastCall[j].response.data
            IN  \A f \in AttrFields :
                    Returned(j)[f] =
                        IF f \in DOMAIN data THEN data[f]
                        ELSE IF f \in {"owner_name", "contact_number"}
                             THEN "Tespit Edilemedi"
                        ELSE IF f = "complex_name" THEN ""
                        ELSE "Belirtilmemis"

(* The parsed object had no key at all: three different defaults. *)
C12_Witness ==
    \E j \in JobSlots :
        /\ lastCall[j].made /\ lastCall[j].branch = "ai"
        /\ DOMAIN lastCall[j].response.data = {}
        /\ Returned(j).owner_name = "Tespit Edilemedi"
        /\ Returned(j).complex_name = ""
        /\ Returned(j).price = "Belirtilmemis"

(* C13, as claimed: no string is a placeholder of both paths: a field the *)
(* fallback fills never gets a default of the AI path, and a field whose  *)
(* key the parsed object omits never gets a default of the fallback.      *)
C13_NoSharedPlaceholder ==
    \A j \in JobSlots :
        lastCall[j].made =>
            /\ lastCall[j].branch = "fallback" =>
                \A f \in AttrFields :
                    lastCall[j].candidate[f] = "" /\ Returned(j)[f] # "" =>
                        Returned(j)[f] \notin
                            {AiPlaceholder(g) : g \in AttrFields}
            /\ lastCall[j].branch = "ai" =>
                \A f \in AttrFields \ DOMAIN lastCall[j].response.data :
                    Returned(j)[f] \notin
                        {FallbackPlaceholder(g) : g \in FallbackFields}

(* C13, amended: the placeholders of owner_name and contact_number tell   *)
(* the paths apart: the fallback writes "HTML Parse Gerekli" and "Detay   *)
(* Sayfasinda", which the AI path never writes as a default, and the AI   *)
(* path writes "Tespit Edilemedi", which the fallback never writes.  For  *)
(* room_count, net_area, is_in_complex, heating_type, parking_type,       *)
(* credit_suitable and price both paths write the same "Belirtilmemis".   *)
C13_OwnerAndContactTellThePath ==
    \A j \in JobSlots :
        lastCall[j].made =>
            /\ lastCall[j].branch = "fallback" =>
                \A f \in AttrFields :
                    lastCall[j].candidate[f] = "" /\ Returned(j)[f] # "" =>
                        Returned(j)[f] =
                            CASE f = "owner_name" -> "HTML Parse Gerekli"
                              [] f = "contact_number" -> "Detay Sayfasinda"
                              [] OTHER -> "Belirtilmemis"
            /\ lastCall[j].branch = "ai" =>
                \A f \in AttrFields \ DOMAIN lastCall[j].response.data :
                    Returned(j)[f] \in
                        IF f \in {"owner_name", "contact_number"}
                        THEN {"Tespit Edilemedi"}
                        ELSE {"Belirtilmemis", ""}

(* The fallback filled owner_name with its own placeholder and price with *)
(* the string the AI path uses too.                                       *)
C13_Witness ==
    \E j \in JobSlots :
        /\ lastCall[j].made /\ lastCall[j].branch = "fallback"
        /\ lastCall[j].candidate.owner_name = ""
        /\ lastCall[j].candidate.price = ""
        /\ Returned(j).owner_name = "HTML Parse Gerekli"
        /\ Returned(j).price = AiPlaceholder("price")

(* C14, as claimed: with no credential configured no call goes to the AI  *)
(* service, and in every completed job every attribute field the          *)
(* candidate left empty holds a placeholder of the fallback and not the   *)
(* placeholder only the AI path writes.                                   *)
C14_NoKeyFallbackPlaceholderEverywhere ==
    ~apiKey =>
        \A j \in JobSlots :
            lastCall[j].made =>
                /\ ~lastCall[j].ai_called
                /\ j \in Submitted /\ Doc(j).status = "completed" =>
                    \A k \in 1..Len(Doc(j).listings), f \in AttrFields :
                        lastCall[j].candidate[f] = "" =>
                            /\ Doc(j).listings[k][f] \in
                                   {"HTML Parse Gerekli", "Detay Sayfasinda",
                                    "Belirtilmemis"}
                            /\ Doc(j).listings[k][f] # "Tespit Edilemedi"

(* C14, amended: with no credential configured no call goes to the AI     *)
(* service, and no attribute field of a completed job's listing holds     *)
(* "Tespit Edilemedi", the placeholder only the AI path writes.  A field  *)
(* the candidate left empty holds the fallback's placeholder only when    *)
(* the candidate lacked owner_name or price and the field is not          *)
(* complex_name; complex_name, and every empty field of a candidate that  *)
(* has owner_name and price, stays empty; when the fallback's parse of    *)
(* raw_html raises, owner_name and price hold the error markers and the   *)
(* other fields stay as they were.                                        *)
C14_NoKeyNoAiCall ==
    ~apiKey =>
        \A j \in JobSlots :
            lastCall[j].made =>
                /\ ~lastCall[j].ai_called
                /\ lastCall[j].response = NoResponse
                /\ lastCall[j].branch # "ai"
                /\ j \in Submitted /\ Doc(j).status = "completed" =>
                    \A k \in 1..Len(Doc(j).listings), f \in AttrFields :
                        /\ Doc(j).listings[k][f] # "Tespit Edilemedi"
                        /\ lastCall[j].candidate[f] = "" =>
                            Doc(j).listings[k][f] =
                                CASE lastCall[j].branch = "short_circuit"
                                         -> ""
                                  [] lastCall[j].branch = "fallback" ->
                                        IF f = "complex_name" THEN ""
                                        ELSE IF f = "owner_name"
                                             THEN "HTML Parse Gerekli"
                                        ELSE IF f = "contact_number"
                                             THEN "Detay Sayfasinda"
                                        ELSE "Belirtilmemis"
                                  [] lastCall[j].branch = "fatal" ->
                                        IF f = "owner_name"
                                        THEN "Islem Hatasi"
                                        ELSE IF f = "price" THEN "Alinamadi"
                                        ELSE ""

(* Without a credential a job completed whose candidate lacked owner_name *)
(* and complex_name: the first holds the fallback's placeholder, the      *)
(* second is still empty.                                                 *)
C14_Witness ==
    \E j \in Submitted :
        /\ ~apiKey /\ lastCall[j].made /\ ~lastCall[j].ai_called
        /\ Doc(j).status = "completed"
        /\ lastCall[j].candidate.owner_name = ""
        /\ lastCall[j].candidate.complex_name = ""
        /\ Doc(j).listings[1].owner_name = "HTML Parse Gerekli"
        /\ Doc(j).listings[1].complex_name = ""

(* The task an acquisition that has just ended belongs to had a browser   *)
(* launched for it.                                                       *)
Launched == acq.made /\ acq.outcome \notin {"playwright_fail", "launch_fail"}

(* C15: whatever the month of the request and whatever the browser does,  *)
(* scrape_sahibinden_listings does not raise and returns a non-empty      *)
(* sequence of candidates.                                                *)
C15_ScrapeAlwaysReturns ==
    acq.made =>
        /\ ~acq.raised
        /\ pc[acq.job] = "set_total"
        /\ Len(listings[acq.job]) > 0

(* C16: for a request whose month is in 1..12 no outcome of the           *)
(* acquisition, a failed launch and a failed navigation included, makes   *)
(* the acquisition raise or puts the job in status error: such a job is   *)
(* in error only with the message of a store failure, and when the store  *)
(* stays reachable it reaches completed with a non-empty listings.        *)
C16_AcquisitionFailureStillCompletes ==
    /\ [](acq.made /\ request[acq.job].month \in 1..12 =>
              ~acq.raised /\ Len(listings[acq.job]) > 0)
    /\ [](\A j \in Submitted :
              request[j].month \in 1..12 /\ Doc(j).status = "error" =>
                  Doc(j).error_message = StoreError)
    /\ ([]storeUp =>
            \A j \in JobSlots :
                (pc[j] # "idle" /\ request[j].month \in 1..12)
                    ~> (/\ j \in Submitted
                        /\ Doc(j).status = "completed"
                        /\ Len(Doc(j).listings) > 0))

(* A job with a month in 1..12 completed with the three candidates that   *)
(* only a failed launch gives.                                            *)
C16_Witness ==
    \E j \in Submitted :
        /\ request[j].month \in 1..12
        /\ Doc(j).status = "completed"
        /\ Len(Doc(j).listings) = 3

(* C17: every candidate an acquisition returns for a month in 1..12 has a *)
(* listing_date that contains the name of the requested month and the     *)
(* requested year.                                                        *)
C17_ListingDateHasMonthAndYear ==
    acq.made /\ ~acq.raised /\ request[acq.job].month \in DOMAIN MonthNames =>
        \A k \in 1..Len(listings[acq.job]) :
            LET date == listings[acq.job][k].listing_date
            IN  /\ \E t \in DOMAIN date :
                       date[t] = MonthNames[request[acq.job].month]
                /\ \E t \in DOMAIN date :
                       date[t] = ToString(request[acq.job].year)

C19_SubmitReturnsFreshJob ==
    resp.op = "scrape" =>
        IF resp.code = 200
        THEN /\ resp.body.status = "processing"
             /\ resp.body.total_listings = 0
             /\ resp.body.processed_listings = 0
             /\ resp.body.listings = <<>>
             /\ \E j \in Submitted :
                    /\ result_id[j] = resp.body.id
                    /\ pc[j] = "set_scraping"
                    /\ Doc(j) = resp.body
                    /\ [url |-> resp.body.url, month |-> resp.body.month,
                        year |-> resp.body.year] = request[j]
        ELSE resp.code = 500 /\ ~storeUp

(* A submit with month 13, whose job will end in error, answered with a   *)
(* job in status processing.                                              *)
C19_Witness ==
    /\ resp.op = "scrape" /\ resp.code = 200
    /\ resp.body.month = 13
    /\ resp.body.status = "processing"

(* C20: every task runs on a job that is in the store, and a get-job for  *)
(* an id a submit has returned answers with the record of that id, never  *)
(* with not-found; its only other answer is the error of a read from an   *)
(* unreachable store.                                                     *)
C20_IssuedIdAlwaysFound ==
    /\ \A j \in JobSlots : pc[j] # "idle" => Found(db, result_id[j])
    /\ \A j \in JobSlots :
           resp.op = "results" /\ pc[j] # "idle" /\ resp.id = result_id[j] =>
               /\ resp.code # 404
               /\ resp.code = 200 => resp.body.id = resp.id
               /\ resp.code # 200 => resp.code = 500 /\ ~storeUp

(* A get-job right after the submit, before the task's first update. *)
C20_Witness ==
    \E j \in Submitted :
        /\ Polled /\ resp.id = result_id[j]
        /\ resp.body.id = result_id[j]
        /\ resp.body.status = "processing"
        /\ pc[j] = "set_scraping"

(* C21, as claimed: a get-job for an id a submit has returned, whatever   *)
(* the task of that job has done in between, answers with the job in      *)
(* status processing.                                                     *)
C21_NextPollSeesProcessing ==
    \A j \in Submitted :
        Polled /\ resp.id = result_id[j] => resp.body.status = "processing"

(* C21, amended: a get-job for an id a submit has returned answers with   *)
(* the job of that id in the status its task has reached: processing as   *)
(* long as the task has not applied its first update (always when the     *)
(* task has not taken a step), and scraping, processing_ai, completed or  *)
(* error after that.                                                      *)
C21_NextPollSeesTaskStatus ==
    \A j \in Submitted :
        Polled /\ resp.id = result_id[j] =>
            /\ resp.body.id = resp.id
            /\ resp.body.status \in
                   {"processing", "scraping", "processing_ai", "completed",
                    "error"}
            /\ pc[j] = "set_scraping" => resp.body.status = "processing"
            /\ resp.body.status = "processing" =>
                   pc[j] \in {"set_scraping", "handler", "crashed"}

(* The task made its first update before the get-job was served. *)
C21_Witness ==
    \E j \in Submitted :
        /\ Polled /\ resp.id = result_id[j]
        /\ resp.body.status = "scraping"
        /\ pc[j] = "scrape"

(* C24: once a job's status is completed or error, no step changes its    *)
(* record, and every get-job for its id answers with the record built     *)
(* from the record as it was then.                                        *)
C24_TerminalRecordFrozen ==
    [][\A i \in DOMAIN db :
          db[i].status \in Terminal =>
              /\ i \in DOMAIN db'
              /\ db'[i] = db[i]
              /\ resp'.op = "results" /\ resp'.code = 200 /\ resp'.id = i =>
                     resp'.body = ToScrapingResult(db[i])]_vars

(* A get-job served after the job completed and its task ended. *)
C24_Witness ==
    \E j \in Submitted :
        /\ Polled /\ resp.id = result_id[j]
        /\ resp.body.status = "completed"
        /\ pc[j] = "done"

(* C27: within one job the candidates are extracted one at a time in the  *)
(* order the acquisition returned them: the extraction of a candidate     *)
(* starts only when the total and the progress of all candidates before   *)
(* it are in the store, it appends the record of exactly the next         *)
(* candidate, and in a completed job the i-th listing is the record of    *)
(* the i-th candidate.                                                    *)
C27_ExtractedInOrder ==
    /\ [][\A j \in JobSlots :
            processed'[j] # processed[j] =>
                /\ pc[j] = "extract"
                /\ Len(processed'[j]) = Len(processed[j]) + 1
                /\ \A i \in 1..Len(processed[j]) :
                       processed'[j][i] = processed[j][i]
                /\ processed'[j][Len(processed'[j])].id =
                       listings[j][Len(processed'[j])].id
                /\ Doc(j).total_listings = Len(listings[j])
                /\ Doc(j).processed_listings = Len(processed[j])]_vars
    /\ [](\A j \in Submitted :
            Doc(j).status = "completed" =>
                /\ Len(Doc(j).listings) = Len(listings[j])
                /\ \A i \in 1..Len(listings[j]) :
                       /\ Doc(j).listings[i] = processed[j][i]
                       /\ Doc(j).listings[i].id = listings[j][i].id)

(* The third candidate is about to be extracted: two records were         *)
(* appended and the progress of the second is in the store.               *)
C27_Witness ==
    \E j \in Submitted :
        /\ pc[j] = "extract"
        /\ Len(processed[j]) = 2
        /\ Doc(j).processed_listings = 2
        /\ processed[j][2].id = listings[j][2].id

(* C28: every candidate an acquisition returns has owner_name and price,  *)
(* so every call of process_listing_with_ai a job makes leaves through    *)
(* the short-circuit: it asks the AI service nothing and returns the      *)
(* candidate as it is, and the listings of a completed job are the        *)
(* candidates as one of the acquisition outcomes synthesized them, with   *)
(* a credential configured or without.                                    *)
C28_JobsAlwaysShortCircuit ==
    /\ acq.made /\ ~acq.raised =>
           \A k \in 1..Len(listings[acq.job]) :
               /\ listings[acq.job][k].owner_name # ""
               /\ listings[acq.job][k].price # ""
    /\ \A j \in JobSlots :
           lastCall[j].made =>
               /\ lastCall[j].branch = "short_circuit"
               /\ ~lastCall[j].ai_called
               /\ lastCall[j].response = NoResponse
               /\ Returned(j) = lastCall[j].candidate
    /\ \A j \in Submitted :
           Doc(j).status = "completed" =>
               \E outcome \in AcquisitionOutcomes :
                   Doc(j).listings =
                       ScrapeSahibindenListings(Doc(j).listings[1].id,
                                                request[j].month,
                                                outcome).listings

(* With a credential configured a job completed, its last call having     *)
(* returned its candidate through the short-circuit.                      *)
C28_Witness ==
    \E j \in Submitted :
        /\ apiKey
        /\ Doc(j).status = "completed"
        /\ lastCall[j].made /\ lastCall[j].branch = "short_circuit"
        /\ Doc(j).listings[Len(Doc(j).listings)] = lastCall[j].candidate

(* C26: every attribute field of every record process_listing_with_ai     *)
(* returns is a text, empty or not, and never null, whatever the          *)
(* candidate and the answer of the AI service.                            *)
C26_AttributesAlwaysText ==
    \A j \in JobSlots :
        lastCall[j].made =>
            \A f \in AttrFields : Returned(j)[f] # NoneValue

(* The ids a submit has returned. *)
IssuedIds == {result_id[j] : j \in {k \in JobSlots : pc[k] # "idle"}}

(* C22: for an id no submit has returned, get-job, export-table and       *)
(* export-document each answer not-found, and none of them changes the    *)
(* store; their only other answer is the error of a read from an          *)
(* unreachable store.                                                     *)
C22_UnknownIdNotFound ==
    [][resp'.op \in {"results", "excel", "pdf"} =>
          /\ db' = db
          /\ resp'.id \notin IssuedIds =>
                 /\ resp'.code \in {404, 500}
                 /\ resp'.code = 404 <=> storeUp]_vars

(* With a job in the store, export-document for another id answered       *)
(* not-found.                                                             *)
C22_Witness ==
    /\ resp.op = "pdf" /\ resp.id = UnknownId /\ resp.code = 404
    /\ DOMAIN db # {}
    /\ UnknownId \notin DOMAIN db

(* C25: for a stored job with no listings both exports succeed, and what  *)
(* each renders is the header row of the ten column names and no data     *)
(* row.                                                                   *)
C25_EmptyExportHeaderOnly ==
    resp.op \in {"excel", "pdf"} /\ Found(db, resp.id) =>
        (Len(db[resp.id].listings) = 0 /\ storeUp =>
            /\ resp.code = 200
            /\ resp.body.header = ExportHeaders
            /\ Len(resp.body.header) = 10
            /\ resp.body.rows = <<>>)

(* The ids of the listings in the store under job id i. *)
StoredListingIds(i) == {db[i].listings[k].id : k \in 1..Len(db[i].listings)}

(* C23: of two jobs whose tasks run concurrently, every update a task     *)
(* makes changes the record of its own job only, no listing id is in the  *)
(* listings of both jobs, and when both tasks have ended both jobs are    *)
(* completed.                                                             *)
C23_ConcurrentJobsIndependent ==
    /\ [][\A j \in ConcurrentSlots :
            pc'[j] # pc[j] =>
                \A i \in DOMAIN db :
                    i # result_id'[j] => i \in DOMAIN db' /\ db'[i] = db[i]]_vars
    /\ [](\A i, k \in DOMAIN db :
            i # k => StoredListingIds(i) \cap StoredListingIds(k) = {})
    /\ [](\A j, k \in ConcurrentSlots :
            /\ j # k
            /\ pc[j] \in {"done", "crashed"}
            /\ pc[k] \in {"done", "crashed"}
            => Doc(j).status = "completed" /\ Doc(k).status = "completed")

====
